---- MODULE Spec2Model ----
(***************************************************************************)
(* rbdb: an interactive command processor over one in-memory key-value     *)
(* table (src/src/lib.rs, src/src/main.rs).                                *)
(*                                                                         *)
(* A &str read from the terminal is modelled as a sequence of characters   *)
(* (one-character strings); an owned String (a key, a value, a result, a   *)
(* diagnostic) is a string.  The table is a function whose domain is the   *)
(* set of keys present.  An Option<String> is a sequence of length 0       *)
(* (None) or 1 (Some(v)).                                                  *)
(***************************************************************************)
EXTENDS Integers, Sequences, FiniteSets, TLC

VARIABLES
    store,    \* the HashMap<String, String> created in main and passed to rbdb_run
    input,    \* the line buffer `input` of rbdb_run after the last read_line
    pc,       \* "running": in the loop; "exited": rbdb_run returned Ok(()); "failed": it
              \* returned Err and main reported it; "panicked": println! or eprintln!
              \* panicked
    eof,      \* standard input is at end of file: read_line returns Ok(0) at once
    spin,     \* parity of the number of times in a row read_line has returned Ok(0)
    stdout,   \* the lines println! wrote to standard output in the last iteration
    stderr,   \* the lines eprintln! wrote to the error stream in the last iteration,
              \* and after it in main
    hist,     \* log of the last iterations in which build_query returned Err or
              \* process_query returned
    cur_tokens,  \* `tokens`, the Vec<&str> last handed to build_query
    cur_query    \* the Result<Query, _> the last build_query returned

vars == <<store, input, pc, eof, spin, stdout, stderr, hist, cur_tokens, cur_query>>

\* Number of loop iterations the log remembers.
MaxHist == 2

----------------------------------------------------------------------------
(* Characters and strings *)

LowerAlpha == <<"a","b","c","d","e","f","g","h","i","j","k","l","m",
                "n","o","p","q","r","s","t","u","v","w","x","y","z">>
UpperAlpha == <<"A","B","C","D","E","F","G","H","I","J","K","L","M",
                "N","O","P","Q","R","S","T","U","V","W","X","Y","Z">>

\* A character is a string: the character itself up to U+00FF, and beyond that,
\* where a string literal cannot hold it, the name of its code point.  The
\* alphabet of the model is U+0000..U+00FF and the characters named below.
\* A &str is the sequence of its characters.  A String is a string that holds
\* a named character as U+001A followed by its name, and U+001A itself
\* doubled, so that different texts are different Strings.
sub == ""

\* char::is_ascii_whitespace: space, tab, line feed, form feed, carriage return.
is_ascii_whitespace(c) == c \in {" ", "\t", "\n", "\f", "\r"}

\* U+000B LINE TABULATION, U+0085 NEXT LINE, U+00A0 NO-BREAK SPACE: White_Space,
\* but not ASCII whitespace.
vt == ""
nel == ""
nbsp == " "

\* The characters with the property White_Space.
White_Space ==
    { "\t", "\n", vt, "\f", "\r", " ", nel, nbsp, "U+1680",
      "U+2000", "U+2001", "U+2002", "U+2003", "U+2004", "U+2005",
      "U+2006", "U+2007", "U+2008", "U+2009", "U+200A",
      "U+2028", "U+2029", "U+202F", "U+205F", "U+3000" }

\* char::is_whitespace, which str::trim uses.
is_whitespace(c) == c \in White_Space

\* The lower-case letters of U+00E0..U+00FE and their upper-case letters.
LowerLatin1 == <<"à","á","â","ã","ä","å","æ","ç","è","é","ê","ë","ì","í","î",
                 "ï","ð","ñ","ò","ó","ô","õ","ö","ø","ù","ú","û","ü","ý","þ">>
UpperLatin1 == <<"À","Á","Â","Ã","Ä","Å","Æ","Ç","È","É","Ê","Ë","Ì","Í","Î",
                 "Ï","Ð","Ñ","Ò","Ó","Ô","Õ","Ö","Ø","Ù","Ú","Û","Ü","Ý","Þ">>

\* U+00DF, U+00B5 and U+00FF: their upper case is two letters, or lies beyond U+00FF.
sharp_s == "ß"
micro == "µ"
y_diaeresis == "ÿ"

\* LATIN SMALL LETTER LONG S and LATIN SMALL LETTER DOTLESS I: their upper
\* case is an ASCII letter.
long_s == "U+017F"
dotless_i == "U+0131"

\* The characters named by code point that have no upper-case mapping.
NoUpperCase == (White_Space \cup {"U+039C", "U+0178"})

\* char::to_uppercase: the characters of the upper case of one character of
\* the alphabet (there can be two).
to_upper_char(c) ==
    IF \E i \in 1..Len(LowerAlpha) : LowerAlpha[i] = c
    THEN <<UpperAlpha[CHOOSE i \in 1..Len(LowerAlpha) : LowerAlpha[i] = c]>>
    ELSE IF \E i \in 1..Len(LowerLatin1) : LowerLatin1[i] = c
    THEN <<UpperLatin1[CHOOSE i \in 1..Len(LowerLatin1) : LowerLatin1[i] = c]>>
    ELSE IF c = sharp_s THEN <<"S", "S">>
    ELSE IF c = micro THEN <<"U+039C">>
    ELSE IF c = y_diaeresis THEN <<"U+0178">>
    ELSE IF c = long_s THEN <<"S">>
    ELSE IF c = dotless_i THEN <<"I">>
    ELSE CASE Len(c) = 1 \/ c \in NoUpperCase -> <<c>>

\* &str -> String (to_string, Display): the characters joined.
RECURSIVE to_string(_)
to_string(s) ==
    IF s = <<>> THEN ""
    ELSE (IF Head(s) = sub THEN sub \o sub
          ELSE IF Len(Head(s)) = 1 THEN Head(s)
          ELSE sub \o Head(s)) \o to_string(Tail(s))

\* to_uppercase left out: the token is matched as typed.
to_uppercase_none(s) == to_string(s)

\* The upper case of each character of s, in order.
RECURSIVE upper_chars(_)
upper_chars(s) == IF s = <<>> THEN <<>> ELSE to_upper_char(Head(s)) \o upper_chars(Tail(s))

\* str::to_uppercase: a String of the upper case of each character.
to_uppercase(s) == to_string(upper_chars(s))

\* str::trim: drop leading and trailing whitespace.
RECURSIVE trim_start(_)
trim_start(s) ==
    IF s # <<>> /\ is_whitespace(Head(s)) THEN trim_start(Tail(s)) ELSE s

RECURSIVE trim_end(_)
trim_end(s) ==
    IF s # <<>> /\ is_whitespace(s[Len(s)])
    THEN trim_end(SubSeq(s, 1, Len(s) - 1))
    ELSE s

trim(s) == trim_end(trim_start(s))

\* str::split_ascii_whitespace().collect(): the maximal runs of characters
\* that are not ASCII whitespace, in order.  `cur` is the run being read.
RECURSIVE split_from(_, _, _)
split_from(s, cur, acc) ==
    IF s = <<>>
    THEN IF cur = <<>> THEN acc ELSE Append(acc, cur)
    ELSE IF is_ascii_whitespace(Head(s))
         THEN split_from(Tail(s), <<>>, IF cur = <<>> THEN acc ELSE Append(acc, cur))
         ELSE split_from(Tail(s), Append(cur, Head(s)), acc)

\* str::split(' ') in place of split_ascii_whitespace: a token ends at each
\* space and only there.
RECURSIVE split_space_from(_, _, _)
split_space_from(s, cur, acc) ==
    IF s = <<>>
    THEN Append(acc, cur)
    ELSE IF Head(s) = " "
         THEN split_space_from(Tail(s), <<>>, Append(acc, cur))
         ELSE split_space_from(Tail(s), Append(cur, Head(s)), acc)

split_on_space(s) == split_space_from(s, <<>>, <<>>)

split_ascii_whitespace(s) == split_from(s, <<>>, <<>>)

----------------------------------------------------------------------------
(* Query and Query::build_query *)

None == <<>>
Some(v) == <<v>>

QueryTypes == {"Insert", "Select", "Update", "Delete"}

Query(t, k, v) == [q_type |-> t, key |-> k, value |-> v]

\* Placeholder in the log for a line that built no Query.
NoQuery == [q_type |-> "None", key |-> "", value |-> None]

w_INSERT == <<"I","N","S","E","R","T">>
w_SELECT == <<"S","E","L","E","C","T">>
w_UPDATE == <<"U","P","D","A","T","E">>
w_DELETE == <<"D","E","L","E","T","E">>

\* build_query that matches the verb before it counts the tokens.
build_query_type_first(tokens) ==
    IF Len(tokens) < 1
    THEN [ok |-> FALSE, query |-> NoQuery, error |-> "Not enough arguments"]
    ELSE IF to_uppercase(tokens[1]) \notin {"INSERT", "SELECT", "UPDATE", "DELETE"}
    THEN [ok |-> FALSE, query |-> NoQuery, error |-> "Invalid query type"]
    ELSE IF Len(tokens) < 2
    THEN [ok |-> FALSE, query |-> NoQuery, error |-> "Not enough arguments"]
    ELSE LET verb == to_uppercase(tokens[1])
             key == to_string(tokens[2])
             value == IF Len(tokens) > 2 THEN Some(to_string(tokens[3])) ELSE None
         IN  [ok |-> TRUE,
              query |-> Query(CASE verb = "INSERT" -> "Insert" [] verb = "SELECT" -> "Select"
                                [] verb = "UPDATE" -> "Update" [] verb = "DELETE" -> "Delete",
                              key, value),
              error |-> ""]

\* build_query whose match falls through to Select for an unknown verb.
build_query_default_select(tokens) ==
    IF Len(tokens) < 2
    THEN [ok |-> FALSE, query |-> NoQuery, error |-> "Not enough arguments"]
    ELSE LET verb == to_uppercase(tokens[1])
             key == to_string(tokens[2])
             value == IF Len(tokens) > 2 THEN Some(to_string(tokens[3])) ELSE None
         IN  IF verb = "INSERT"
             THEN [ok |-> TRUE, query |-> Query("Insert", key, value), error |-> ""]
             ELSE IF verb = "UPDATE"
             THEN [ok |-> TRUE, query |-> Query("Update", key, value), error |-> ""]
             ELSE IF verb = "DELETE"
             THEN [ok |-> TRUE, query |-> Query("Delete", key, value), error |-> ""]
             ELSE [ok |-> TRUE, query |-> Query("Select", key, value), error |-> ""]

build_query(tokens) ==
    IF Len(tokens) < 2
    THEN [ok |-> FALSE, query |-> NoQuery, error |-> "Not enough arguments"]
    ELSE LET verb == to_uppercase(tokens[1])
             key == to_string(tokens[2])
             value == IF Len(tokens) > 2 THEN Some(to_string(tokens[3])) ELSE None
         IN  IF verb = "INSERT"
             THEN [ok |-> TRUE, query |-> Query("Insert", key, value), error |-> ""]
             ELSE IF verb = "SELECT"
             THEN [ok |-> TRUE, query |-> Query("Select", key, value), error |-> ""]
             ELSE IF verb = "UPDATE"
             THEN [ok |-> TRUE, query |-> Query("Update", key, value), error |-> ""]
             ELSE IF verb = "DELETE"
             THEN [ok |-> TRUE, query |-> Query("Delete", key, value), error |-> ""]
             ELSE [ok |-> FALSE, query |-> NoQuery, error |-> "Invalid query type"]

----------------------------------------------------------------------------
(* The table and process_query *)

EmptyStore == [k \in {} |-> ""]

contains_key(s, k) == k \in DOMAIN s

\* HashMap::insert: add the entry or replace its value.
insert(s, k, v) == [x \in DOMAIN s \cup {k} |-> IF x = k THEN v ELSE s[x]]

\* HashMap::remove: the table without the entry.
remove(s, k) == [x \in DOMAIN s \ {k} |-> s[x]]

\* The Inserted text without its tail.
InsertedText_short(k, v) == "SUCCESS: Inserted " \o k \o ":" \o v

InsertedText(k, v) == "SUCCESS: Inserted " \o k \o ":" \o v \o " into database"
UpdatedText(k, v) == "SUCCESS: Updated " \o k \o " with " \o v
DeletedText(k) == "SUCCESS: Deleted " \o k
ExistsWarning(k) == "Key " \o k \o " already exists. Use UPDATE query instead"
NotFoundWarning(k) == "No entry found for key = " \o k
InsertNoValueWarning == "INSERT requires a value, but none was provided"
UpdateNoValueWarning == "UPDATE requres a value, but none was provided"

\* Mutations of the branches of process_query, each a slip the code could have
\* made; the properties below are checked to tell the code from them.

\* Insert with the arguments of HashMap::insert exchanged.
process_insert_swapped(query, s) ==
    LET warn == IF contains_key(s, query.key) THEN <<ExistsWarning(query.key)>> ELSE <<>>
    IN  IF query.value # None
        THEN [store |-> insert(s, query.value[1], query.key),
              result |-> InsertedText(query.key, query.value[1]),
              err |-> warn]
        ELSE [store |-> s, result |-> "", err |-> Append(warn, InsertNoValueWarning)]

\* Insert that keeps the old value of a key that is present (entry().or_insert).
process_insert_keep_existing(query, s) ==
    LET warn == IF contains_key(s, query.key) THEN <<ExistsWarning(query.key)>> ELSE <<>>
    IN  IF query.value # None
        THEN [store |-> IF contains_key(s, query.key) THEN s
                        ELSE insert(s, query.key, query.value[1]),
              result |-> InsertedText(query.key, query.value[1]),
              err |-> warn]
        ELSE [store |-> s, result |-> "", err |-> Append(warn, InsertNoValueWarning)]

\* Insert that stores the empty string when no value is given (unwrap_or_default).
process_insert_default_value(query, s) ==
    LET warn == IF contains_key(s, query.key) THEN <<ExistsWarning(query.key)>> ELSE <<>>
    IN  IF query.value # None
        THEN [store |-> insert(s, query.key, query.value[1]),
              result |-> InsertedText(query.key, query.value[1]),
              err |-> warn]
        ELSE [store |-> insert(s, query.key, ""), result |-> "",
              err |-> Append(warn, InsertNoValueWarning)]

\* Each branch gives the table afterwards, query_result, and the lines it
\* wrote to the error stream, in order.
process_insert(query, s) ==
    LET warn == IF contains_key(s, query.key) THEN <<ExistsWarning(query.key)>> ELSE <<>>
    IN  IF query.value # None
        THEN [store |-> insert(s, query.key, query.value[1]),
              result |-> InsertedText(query.key, query.value[1]),
              err |-> warn]
        ELSE [store |-> s, result |-> "", err |-> Append(warn, InsertNoValueWarning)]

\* Select that takes the entry out of the table (remove in place of get).
process_select_take(query, s) ==
    IF contains_key(s, query.key)
    THEN [store |-> remove(s, query.key), result |-> s[query.key], err |-> <<>>]
    ELSE [store |-> s, result |-> "", err |-> <<NotFoundWarning(query.key)>>]

process_select(query, s) ==
    IF contains_key(s, query.key)
    THEN [store |-> s, result |-> s[query.key], err |-> <<>>]
    ELSE [store |-> s, result |-> "", err |-> <<NotFoundWarning(query.key)>>]

\* Update that reports success without storing the value.
process_update_no_store(query, s) ==
    IF contains_key(s, query.key)
    THEN IF query.value # None
         THEN [store |-> s,
               result |-> UpdatedText(query.key, query.value[1]),
               err |-> <<>>]
         ELSE [store |-> s, result |-> "", err |-> <<UpdateNoValueWarning>>]
    ELSE [store |-> s, result |-> "", err |-> <<NotFoundWarning(query.key)>>]

\* Update that hands a present key with a value to the Insert branch.
process_update_via_insert(query, s) ==
    IF contains_key(s, query.key)
    THEN IF query.value # None
         THEN process_insert(query, s)
         ELSE [store |-> s, result |-> "", err |-> <<UpdateNoValueWarning>>]
    ELSE [store |-> s, result |-> "", err |-> <<NotFoundWarning(query.key)>>]

\* Update that creates the key when it is absent.
process_update_upsert(query, s) ==
    IF query.value # None
    THEN [store |-> insert(s, query.key, query.value[1]),
          result |-> IF contains_key(s, query.key)
                     THEN UpdatedText(query.key, query.value[1]) ELSE "",
          err |-> IF contains_key(s, query.key) THEN <<>>
                  ELSE <<NotFoundWarning(query.key)>>]
    ELSE IF contains_key(s, query.key)
         THEN [store |-> s, result |-> "", err |-> <<UpdateNoValueWarning>>]
         ELSE [store |-> s, result |-> "", err |-> <<NotFoundWarning(query.key)>>]

process_update(query, s) ==
    IF contains_key(s, query.key)
    THEN IF query.value # None
         THEN [store |-> insert(s, query.key, query.value[1]),
               result |-> UpdatedText(query.key, query.value[1]),
               err |-> <<>>]
         ELSE [store |-> s, result |-> "", err |-> <<UpdateNoValueWarning>>]
    ELSE [store |-> s, result |-> "", err |-> <<NotFoundWarning(query.key)>>]

\* Delete that reports success without removing the entry.
process_delete_no_remove(query, s) ==
    IF contains_key(s, query.key)
    THEN [store |-> s, result |-> DeletedText(query.key), err |-> <<>>]
    ELSE [store |-> s, result |-> "", err |-> <<NotFoundWarning(query.key)>>]

\* Delete that reports success whether or not the key was present.
process_delete_always_success(query, s) ==
    [store |-> remove(s, query.key), result |-> DeletedText(query.key), err |-> <<>>]

\* Delete that empties the table (clear in place of remove).
process_delete_clear(query, s) ==
    IF contains_key(s, query.key)
    THEN [store |-> EmptyStore, result |-> DeletedText(query.key), err |-> <<>>]
    ELSE [store |-> s, result |-> "", err |-> <<NotFoundWarning(query.key)>>]

process_delete(query, s) ==
    IF contains_key(s, query.key)
    THEN [store |-> remove(s, query.key), result |-> DeletedText(query.key), err |-> <<>>]
    ELSE [store |-> s, result |-> "", err |-> <<NotFoundWarning(query.key)>>]

\* process_query that returns Err when no branch set query_result.
process_query_err_on_warning(query, s) ==
    LET r == CASE query.q_type = "Insert" -> process_insert(query, s)
               [] query.q_type = "Select" -> process_select(query, s)
               [] query.q_type = "Update" -> process_update(query, s)
               [] query.q_type = "Delete" -> process_delete(query, s)
    IN  [ok |-> r.result # "", store |-> r.store, result |-> r.result, err |-> r.err]

\* process_query: ok is TRUE for Ok(query_result); no path returns Err.
process_query(query, s) ==
    LET r == CASE query.q_type = "Insert" -> process_insert(query, s)
               [] query.q_type = "Select" -> process_select(query, s)
               [] query.q_type = "Update" -> process_update(query, s)
               [] query.q_type = "Delete" -> process_delete(query, s)
    IN  [ok |-> TRUE, store |-> r.store, result |-> r.result, err |-> r.err]

----------------------------------------------------------------------------
(* The lines the user may type *)

sp == <<" ">>
tab == <<"\t">>
nl == <<"\n">>

\* The lines standard input can deliver, each as read_line leaves it in the
\* buffer (with its line terminator).
Lines ==
    { w_INSERT \o sp \o <<"a">> \o sp \o <<"1">> \o nl,
      <<"i","n","s","e","r","t">> \o sp \o <<"a">> \o sp \o <<"2">> \o nl,
      w_INSERT \o sp \o <<"a">> \o nl,
      w_SELECT \o sp \o <<"a">> \o nl,
      w_UPDATE \o sp \o <<"a">> \o sp \o <<"1">> \o nl,
      <<"u","p","d","a","t","e">> \o sp \o <<"a">> \o sp \o <<"2">> \o nl,
      w_UPDATE \o sp \o <<"a">> \o nl,
      w_DELETE \o sp \o <<"a">> \o nl,
      sp \o w_INSERT \o sp \o sp \o <<"b">> \o sp \o <<"1">> \o sp \o <<"x">> \o <<"\r">> \o nl,
      <<"S","e","L","e","C","t">> \o tab \o <<"b">> \o nl,
      w_UPDATE \o sp \o <<"b">> \o sp \o <<"2">> \o nl,
      <<"d","e","l","e","t","e">> \o sp \o <<"b">> \o nl,
      nl,
      <<"q","u","i","t">> \o nl,
      sp \o sp \o <<"e","x","i","t">> \o sp \o nl,
      <<nbsp>> \o <<"q","u","i","t">> \o <<vt>> \o <<"U+2003">> \o nl,
      <<long_s,"e","l","e","c","t">> \o sp \o <<"a">> \o nl,
      <<"Q","U","I","T">> \o nl,
      <<"q","u","i","t">> \o sp \o <<"n","o","w">> \o nl }

w_quit == <<"q","u","i","t">>
w_exit == <<"e","x","i","t">>

\* The lines of a scripted session (the scenario of the specification among them).
w_foo == <<"f","o","o">>

ScriptLines ==
    { w_INSERT \o sp \o w_foo \o sp \o <<"b","a","r">> \o nl,
      w_SELECT \o sp \o w_foo \o nl,
      w_DELETE \o sp \o w_foo \o nl,
      <<"i","n","s","e","r","t">> \o sp \o w_foo \o sp \o <<"b","a","z">> \o nl,
      w_INSERT \o sp \o w_foo \o nl,
      w_UPDATE \o sp \o w_foo \o sp \o <<"q","u","x">> \o nl,
      w_UPDATE \o sp \o w_foo \o nl,
      w_INSERT \o sp \o <<"k">> \o sp \o <<"v">> \o nl,
      w_DELETE \o nl }

----------------------------------------------------------------------------
(* rbdb_run *)

\* The log keeps the last `keep` entries.
Log(h, e, keep) ==
    LET all == Append(h, e)
    IN  IF Len(all) > keep THEN SubSeq(all, Len(all) - keep + 1, Len(all)) ELSE all

\* cur_query before build_query has been called.
NotBuilt == [ok |-> FALSE, query |-> NoQuery, error |-> ""]

\* The sentinel test compared without regard to letter case.
is_quit_ignore_case(line) ==
    to_uppercase(trim(line)) = "QUIT"
       \/ to_uppercase(trim(line)) = "EXIT"

\* input.trim() == "quit" || input.trim() == "exit"
is_quit(line) == trim(line) = w_quit \/ trim(line) = w_exit

\* What an iteration computes from the buffer alone, tabulated once over the
\* buffers read_line can leave: the sentinel test, `tokens`, and the result of
\* build_query(tokens).
Scanned ==
    [l \in Lines \cup ScriptLines \cup {<<>>} |->
        [quit |-> is_quit(l),
         tokens |-> split_ascii_whitespace(l),
         built |-> build_query(split_ascii_whitespace(l))]]

\* The loop body with build_query(tokens)? in place of the match: a parse
\* error is returned from rbdb_run.
Body_propagate_error(line, keep) ==
    /\ input' = line
    /\ IF Scanned[line].quit
       THEN /\ pc' = "exited"
            /\ stdout' = <<>>
            /\ stderr' = <<>>
            /\ UNCHANGED <<store, hist, cur_tokens, cur_query>>
       ELSE LET tokens == Scanned[line].tokens
                b == Scanned[line].built
            IN  /\ cur_tokens' = tokens
                /\ cur_query' = b
                /\ IF ~b.ok THEN
                     /\ pc' = "failed"
                     /\ stdout' = <<>>
                     /\ stderr' = <<>>
                     /\ UNCHANGED <<store, hist>>
                   ELSE
                     LET r == process_query(b.query, store)
                     IN  /\ pc' = "running"
                         /\ store' = r.store
                         /\ stdout' = <<r.result>>
                         /\ stderr' = r.err
                         /\ hist' = Log(hist, [line |-> line, parsed |-> TRUE, query |-> b.query,
                                               before |-> store, after |-> r.store, ok |-> r.ok,
                                               result |-> r.result, out |-> <<r.result>>,
                                               err |-> r.err],
                                        keep)

\* One iteration of the loop once read_line has filled the buffer with `line`
\* and in which every write succeeds; the log keeps `keep` entries.
Body(line, keep) ==
    /\ input' = line
    /\ IF Scanned[line].quit
       THEN /\ pc' = "exited"
            /\ stdout' = <<>>
            /\ stderr' = <<>>
            /\ UNCHANGED <<store, hist, cur_tokens, cur_query>>
       ELSE LET tokens == Scanned[line].tokens
                b == Scanned[line].built
            IN  /\ cur_tokens' = tokens
                /\ cur_query' = b
                /\ IF ~b.ok THEN
                     /\ pc' = "running"
                     /\ stdout' = <<>>
                     /\ stderr' = <<"Query is malformed: " \o b.error>>
                     /\ hist' = Log(hist, [line |-> line, parsed |-> FALSE, query |-> NoQuery,
                                           before |-> store, after |-> store, ok |-> FALSE,
                                           result |-> "", out |-> <<>>,
                                           err |-> <<"Query is malformed: " \o b.error>>],
                                    keep)
                     /\ UNCHANGED store
                   ELSE
                     LET r == process_query(b.query, store)
                         out == IF r.ok THEN <<r.result>> ELSE <<>>
                         err == IF r.ok THEN r.err
                                ELSE Append(r.err, "Query processing failed: " \o r.result)
                     IN  /\ pc' = "running"
                         /\ store' = r.store
                         /\ stdout' = out
                         /\ stderr' = err
                         /\ hist' = Log(hist, [line |-> line, parsed |-> TRUE, query |-> b.query,
                                               before |-> store, after |-> r.store, ok |-> r.ok,
                                               result |-> r.result, out |-> out, err |-> err],
                                        keep)

\* The loop body as rbdb_run runs it.
Iteration(line) == Body(line, MaxHist)

\* The writes of the iteration on `line` from table s, in order: the stream,
\* the line written, and the table at the time of the write.  Every eprintln!
\* of process_query comes before the table is changed or on a path that leaves
\* it; println! comes after process_query has returned.
Writes(line, s) ==
    LET b == Scanned[line].built
    IN  IF ~b.ok
        THEN << [to |-> "stderr", text |-> "Query is malformed: " \o b.error, store |-> s] >>
        ELSE LET r == process_query(b.query, s)
             IN  [i \in 1..Len(r.err) |-> [to |-> "stderr", text |-> r.err[i], store |-> s]]
                    \o IF r.ok
                       THEN << [to |-> "stdout", text |-> r.result, store |-> r.store] >>
                       ELSE << [to |-> "stderr",
                                text |-> "Query processing failed: " \o r.result,
                                store |-> r.store] >>

\* The lines among the first n writes w that went to stream `to`.
RECURSIVE Written(_, _, _)
Written(w, n, to) ==
    IF n = 0 THEN <<>>
    ELSE IF w[n].to = to THEN Append(Written(w, n - 1, to), w[n].text)
         ELSE Written(w, n - 1, to)

\* The iteration on `line` in which write number `at` fails: println! and
\* eprintln! panic, and the process ends with the table as it is then.  The
\* error stream is not buffered: a line whose write failed is not written.
\* Standard output is line-buffered: a line of println! whose write failed
\* stays in the buffer and is written when the process exits if the write
\* succeeds then (`late`); an empty line is not kept.  The iteration is logged
\* when it is println! that fails, since process_query has returned by then.
PanicAt(line, at, late, keep) ==
    LET w == Writes(line, store)
        b == Scanned[line].built
        out == IF late /\ w[at].to = "stdout" /\ w[at].text # ""
               THEN <<w[at].text>> ELSE <<>>
    IN  /\ input' = line
        /\ pc' = "panicked"
        /\ cur_tokens' = Scanned[line].tokens
        /\ cur_query' = b
        /\ store' = w[at].store
        /\ stdout' = Written(w, at - 1, "stdout") \o out
        /\ stderr' = Written(w, at - 1, "stderr")
        /\ hist' = IF w[at].to = "stdout"
                   THEN LET r == process_query(b.query, store)
                        IN  Log(hist, [line |-> line, parsed |-> TRUE, query |-> b.query,
                                       before |-> store, after |-> r.store, ok |-> r.ok,
                                       result |-> r.result, out |-> out, err |-> r.err],
                                keep)
                   ELSE hist

\* main: a new, empty table; rbdb_run: an empty buffer, the loop about to start.
Init ==
    /\ store = EmptyStore
    /\ input = <<>>
    /\ pc = "running"
    /\ eof = FALSE
    /\ spin = 0
    /\ stdout = <<>>
    /\ stderr = <<>>
    /\ hist = <<>>
    /\ cur_tokens = <<>>
    /\ cur_query = NotBuilt

\* read_line delivers a line: standard input was not, or is no longer, at end
\* of file.
ReadLine ==
    /\ pc = "running"
    /\ eof' = FALSE
    /\ spin' = 0
    /\ \E line \in Lines : Iteration(line)

\* read_line returns Ok(0) and leaves the cleared buffer empty.  Standard input
\* stays at end of file (a file, a pipe without a writer), or the condition is
\* used up and the next read_line waits for input (a terminal).
ReadEof ==
    /\ pc = "running"
    /\ eof' \in BOOLEAN
    /\ spin' = 1 - spin
    /\ Iteration(<<>>)

\* The ways stdout().flush() and read_line() return Err: the buffer, cleared
\* before them, is left empty, or holds the characters read before the error;
\* `error` is the text of the error.
IoErrors ==
    { [input |-> <<>>, error |-> "Broken pipe (os error 32)"],
      [input |-> <<>>, error |-> "stream did not contain valid UTF-8"],
      [input |-> w_quit, error |-> "Input/output error (os error 5)"] }

\* stdout().flush() or read_line() returns Err, which `?` returns from
\* rbdb_run; main reports it with eprintln! and exits with status 1, or the
\* write of the report fails and eprintln! panics.
IoFailure ==
    /\ pc = "running"
    /\ \E f \in IoErrors, reported \in BOOLEAN :
          /\ input' = f.input
          /\ stdout' = <<>>
          /\ IF reported
             THEN pc' = "failed" /\ stderr' = <<"Application Error: " \o f.error>>
             ELSE pc' = "panicked" /\ stderr' = <<>>
    /\ UNCHANGED <<store, eof, spin, hist, cur_tokens, cur_query>>

\* read_line delivers a line or returns Ok(0), and a println! or eprintln! of
\* the iteration panics: its write failed.
WritePanic ==
    /\ pc = "running"
    /\ \E line \in Lines \cup {<<>>} :
          /\ ~Scanned[line].quit
          /\ eof' = (line = <<>>)
          /\ spin' = IF line = <<>> THEN 1 - spin ELSE 0
          /\ \E at \in 1..Len(Writes(line, store)), late \in BOOLEAN :
                /\ late => Writes(line, store)[at].to = "stdout"
                /\ PanicAt(line, at, late, MaxHist)

Next == ReadLine \/ ReadEof \/ IoFailure \/ WritePanic

Spec == Init /\ [][Next]_vars

\* An iteration of the loop while standard input is at end of file: read_line
\* returns at once, so the iteration is not put off for ever.
LoopAtEof == eof /\ ReadEof

FairSpec == Init /\ [][Next]_vars /\ WF_vars(LoopAtEof)

\* main: the exit status of the process: 0 when rbdb_run returned Ok, 1 from
\* process::exit(1) when it returned Err, 101 when a print macro panicked.
ExitCode == CASE pc = "exited" -> 0 [] pc = "failed" -> 1 [] pc = "panicked" -> 101

----------------------------------------------------------------------------
(* A session of at most MaxSteps lines, logged from its first line *)

\* Number of lines of a logged session.
MaxSteps == 5

\* read_line delivers a line of the script; the log keeps every entry.
ScriptRead ==
    /\ pc = "running"
    /\ Len(hist) < MaxSteps
    /\ eof' = FALSE
    /\ spin' = 0
    /\ \E line \in ScriptLines : Body(line, MaxSteps)

ScriptNext == ScriptRead

ScriptSpec == Init /\ [][ScriptNext]_vars

----------------------------------------------------------------------------
(* Query::build_query on its own, as the tests good_query and bad_query call it *)

\* Longest token sequence handed to build_query.
MaxTokens == 4

\* The tokens the sequences are made of.
Vocabulary ==
    { w_INSERT,
      <<"i","n","s","e","r","t">>,
      <<"S","e","L","e","C","t">>,
      <<"u","P","D","A","T","E">>,
      <<"d","e","l","e","t","e">>,
      <<"d","r","o","p">>,
      <<"i","n","s","e","r","t","s">>,
      <<long_s,"e","l","e","c","t">>,
      <<dotless_i,"n","s","e","r","t">>,
      <<"k">>,
      <<"v">> }

TokenSeqs == UNION {[1..n -> Vocabulary] : n \in 0..MaxTokens}

\* A token vector, build_query not yet called on it.
ParseInit ==
    /\ store = EmptyStore
    /\ input = <<>>
    /\ pc = "running"
    /\ eof = FALSE
    /\ spin = 0
    /\ stdout = <<>>
    /\ stderr = <<>>
    /\ hist = <<>>
    /\ cur_tokens \in TokenSeqs
    /\ cur_query = NotBuilt

\* let query = Query::build_query(tokens);
CallBuildQuery ==
    /\ cur_query = NotBuilt
    /\ cur_query' = build_query(cur_tokens)
    /\ UNCHANGED <<store, input, pc, eof, spin, stdout, stderr, hist, cur_tokens>>

ParseNext == CallBuildQuery

ParseSpec == ParseInit /\ [][ParseNext]_vars

----------------------------------------------------------------------------
(* Properties.  They are stated over the log: an entry records one         *)
(* iteration that reached the parser, with the table before and after it.  *)

Entries == {hist[i] : i \in 1..Len(hist)}

\* Pairs <<a, b>> of entries of consecutive iterations.
Consecutive == {<<hist[i], hist[i + 1]>> : i \in 1..(Len(hist) - 1)}

Ran(e, t) == e.parsed /\ e.query.q_type = t

HasValue(e) == e.query.value # <<>>

Present(e) == e.query.key \in DOMAIN e.before

\* Every key but k has the same presence and value in s and t.
SameElsewhere(s, t, k) ==
    /\ DOMAIN s \ {k} = DOMAIN t \ {k}
    /\ \A x \in DOMAIN s \ {k} : s[x] = t[x]

\* C1: an Insert with a value returns "SUCCESS: Inserted k:v into database",
\* whether or not k was present, and a Select of k right after it returns v.
C1_InsertSelectRoundTrip ==
    /\ \A e \in Entries :
          Ran(e, "Insert") /\ HasValue(e) =>
             /\ e.ok
             /\ e.result = "SUCCESS: Inserted " \o e.query.key \o ":"
                             \o e.query.value[1] \o " into database"
    /\ \A p \in Consecutive :
          /\ Ran(p[1], "Insert") /\ HasValue(p[1])
          /\ Ran(p[2], "Select") /\ p[2].query.key = p[1].query.key
          => p[2].ok /\ p[2].result = p[1].query.value[1]

\* An Insert that replaced a different value, then a Select that returned the new one.
C1_Witness ==
    \E p \in Consecutive :
       /\ Ran(p[1], "Insert") /\ HasValue(p[1]) /\ Present(p[1])
       /\ p[1].before[p[1].query.key] # p[1].query.value[1]
       /\ Ran(p[2], "Select") /\ p[2].query.key = p[1].query.key
       /\ p[2].result = p[1].query.value[1]
       /\ stdout = <<p[1].query.value[1]>>

\* C2: an Update with a value of a key that is present sets table[k] = v and
\* returns "SUCCESS: Updated k with v"; a Select of k right after it returns v.
C2_UpdateChangesValue ==
    /\ \A e \in Entries :
          Ran(e, "Update") /\ HasValue(e) /\ Present(e) =>
             /\ e.ok
             /\ e.query.key \in DOMAIN e.after
             /\ e.after[e.query.key] = e.query.value[1]
             /\ e.result = "SUCCESS: Updated " \o e.query.key \o " with " \o e.query.value[1]
    /\ \A p \in Consecutive :
          /\ Ran(p[1], "Update") /\ HasValue(p[1]) /\ Present(p[1])
          /\ Ran(p[2], "Select") /\ p[2].query.key = p[1].query.key
          => p[2].ok /\ p[2].result = p[1].query.value[1]

\* An Update that changed the value, then a Select that returned the new one.
C2_Witness ==
    \E p \in Consecutive :
       /\ Ran(p[1], "Update") /\ HasValue(p[1]) /\ Present(p[1])
       /\ p[1].before[p[1].query.key] # p[1].query.value[1]
       /\ Ran(p[2], "Select") /\ p[2].query.key = p[1].query.key
       /\ p[2].result = p[1].query.value[1]

\* C3: a Delete of a key that is present removes it and returns
\* "SUCCESS: Deleted k"; a Select of k right after it returns the empty
\* string and writes the not-found diagnostic.
C3_DeleteRemoves ==
    /\ \A e \in Entries :
          Ran(e, "Delete") /\ Present(e) =>
             /\ e.ok
             /\ e.query.key \notin DOMAIN e.after
             /\ e.result = "SUCCESS: Deleted " \o e.query.key
    /\ \A p \in Consecutive :
          /\ Ran(p[1], "Delete") /\ Present(p[1])
          /\ Ran(p[2], "Select") /\ p[2].query.key = p[1].query.key
          => /\ p[2].ok
             /\ p[2].result = ""
             /\ p[2].err = <<"No entry found for key = " \o p[2].query.key>>

\* A Delete that removed a key, then a Select of it.
C3_Witness ==
    \E p \in Consecutive :
       /\ Ran(p[1], "Delete") /\ Present(p[1])
       /\ Ran(p[2], "Select") /\ p[2].query.key = p[1].query.key
       /\ store = p[1].after
       /\ stdout = <<"">>

\* C4: a Delete of k right after a Delete of k returns Ok with the empty
\* result, writes the not-found diagnostic and leaves the table as the first
\* Delete left it.
C4_DeleteTwice ==
    \A p \in Consecutive :
       /\ Ran(p[1], "Delete") /\ Ran(p[2], "Delete")
       /\ p[2].query.key = p[1].query.key
       => /\ p[2].ok
          /\ p[2].result = ""
          /\ p[2].err = <<"No entry found for key = " \o p[2].query.key>>
          /\ p[2].after = p[1].after
          /\ p[2].after = p[2].before

\* Two Deletes of one key, the first of which removed it from a table that
\* holds another key.
C4_Witness ==
    \E p \in Consecutive :
       /\ Ran(p[1], "Delete") /\ Present(p[1]) /\ Ran(p[2], "Delete")
       /\ p[2].query.key = p[1].query.key
       /\ DOMAIN p[2].after # {}
       /\ store = p[2].after

\* C5: a Select leaves the table unchanged; it returns the stored value when
\* the key is present, and the empty string with the not-found diagnostic
\* when it is absent.
C5_SelectReadOnly ==
    \A e \in Entries :
       Ran(e, "Select") =>
          /\ e.after = e.before
          /\ e.ok
          /\ Present(e) => e.result = e.before[e.query.key] /\ e.err = <<>>
          /\ ~Present(e) => /\ e.result = ""
                            /\ e.err = <<"No entry found for key = " \o e.query.key>>

\* A Select of a key that is present, then a Select of one that is absent.
C5_Witness ==
    \E p \in Consecutive :
       /\ Ran(p[1], "Select") /\ Present(p[1])
       /\ p[1].out = <<p[1].before[p[1].query.key]>>
       /\ Ran(p[2], "Select") /\ ~Present(p[2])
       /\ stdout = <<"">>
       /\ store = p[1].before

\* C6: an Insert on a key that is present writes the "already exists"
\* diagnostic, and when it carries a value the table maps the key to it.
C6_InsertOverwrites ==
    \A e \in Entries :
       Ran(e, "Insert") /\ Present(e) =>
          /\ Len(e.err) >= 1
          /\ e.err[1] = "Key " \o e.query.key \o " already exists. Use UPDATE query instead"
          /\ HasValue(e) => /\ e.query.key \in DOMAIN e.after
                            /\ e.after[e.query.key] = e.query.value[1]

\* An Insert that replaced a different value.
C6_Witness ==
    \E e \in Entries :
       /\ Ran(e, "Insert") /\ Present(e) /\ HasValue(e)
       /\ e.before[e.query.key] # e.query.value[1]
       /\ e.after[e.query.key] = e.query.value[1]
       /\ e.err = <<"Key " \o e.query.key \o " already exists. Use UPDATE query instead">>

\* C7 as stated: on a key that is present and with a value, Insert and
\* Update from the same table give the same table, the same result text and
\* the same diagnostics.
C7_InsertUpdateSameOutput ==
    \A e \in Entries :
       e.parsed /\ e.query.q_type \in {"Insert", "Update"} /\ Present(e) /\ HasValue(e) =>
          LET other == IF e.query.q_type = "Insert" THEN "Update" ELSE "Insert"
              r == process_query(Query(other, e.query.key, e.query.value), e.before)
          IN  /\ r.store = e.after
              /\ r.result = e.result
              /\ r.err = e.err

\* C7, amended: on a key that is present and with a value, Insert and Update
\* from the same table give the same table; the Insert returns the Inserted
\* text and writes the "already exists" diagnostic, the Update returns the
\* Updated text and writes no diagnostic.
C7_InsertUpdateSameTable ==
    \A e \in Entries :
       e.parsed /\ e.query.q_type \in {"Insert", "Update"} /\ Present(e) /\ HasValue(e) =>
          LET k == e.query.key
              v == e.query.value[1]
              ins == IF e.query.q_type = "Insert" THEN [store |-> e.after, result |-> e.result, err |-> e.err]
                     ELSE process_query(Query("Insert", k, e.query.value), e.before)
              upd == IF e.query.q_type = "Update" THEN [store |-> e.after, result |-> e.result, err |-> e.err]
                     ELSE process_query(Query("Update", k, e.query.value), e.before)
          IN  /\ ins.store = upd.store
              /\ ins.result = "SUCCESS: Inserted " \o k \o ":" \o v \o " into database"
              /\ upd.result = "SUCCESS: Updated " \o k \o " with " \o v
              /\ ins.err = <<"Key " \o k \o " already exists. Use UPDATE query instead">>
              /\ upd.err = <<>>

\* An Update that changed the value of a key, after an Insert on that key
\* when it was present already.
C7_Witness ==
    \E p \in Consecutive :
       /\ Ran(p[1], "Insert") /\ Present(p[1]) /\ HasValue(p[1])
       /\ Ran(p[2], "Update") /\ Present(p[2]) /\ HasValue(p[2])
       /\ p[2].query.key = p[1].query.key
       /\ p[2].before # p[2].after

\* C8: an Insert without a value leaves the table unchanged and returns the
\* empty result; so does an Update of a key that is absent, which does not
\* create the key, and an Update without a value of a key that is present.
C8_NoMutationOnWarning ==
    \A e \in Entries :
       /\ Ran(e, "Insert") /\ ~HasValue(e) =>
             e.ok /\ e.after = e.before /\ e.result = ""
       /\ Ran(e, "Update") /\ ~Present(e) =>
             /\ e.ok /\ e.after = e.before /\ e.result = ""
             /\ e.query.key \notin DOMAIN e.after
       /\ Ran(e, "Update") /\ Present(e) /\ ~HasValue(e) =>
             e.ok /\ e.after = e.before /\ e.result = ""

\* An Update with a value of a key that is absent, then an Insert without a
\* value of a key that is present.
C8_Witness ==
    \E p \in Consecutive :
       /\ Ran(p[1], "Update") /\ ~Present(p[1]) /\ HasValue(p[1])
       /\ Ran(p[2], "Insert") /\ Present(p[2]) /\ ~HasValue(p[2])
       /\ store = p[1].before

\* The success text of the entry's command, for the kinds that have one.
IsSuccessText(e) ==
    \/ /\ e.query.q_type = "Insert" /\ HasValue(e)
       /\ e.result = "SUCCESS: Inserted " \o e.query.key \o ":"
                       \o e.query.value[1] \o " into database"
    \/ /\ e.query.q_type = "Update" /\ HasValue(e)
       /\ e.result = "SUCCESS: Updated " \o e.query.key \o " with " \o e.query.value[1]
    \/ /\ e.query.q_type = "Delete"
       /\ e.result = "SUCCESS: Deleted " \o e.query.key

\* C9: in every step, if the table changes then the line of the step parsed
\* and its execution returned the success text of an Insert, Update or Delete,
\* which is printed unless println! fails; a step whose line does not parse, or whose command
\* returns the empty result, leaves the table unchanged.
C9_MutationOnlyOnSuccess ==
    [][ LET n == Len(hist')
            e == hist'[n]
        IN  /\ store' # store =>
                 /\ n > 0
                 /\ e.line = input' /\ e.before = store /\ e.after = store'
                 /\ e.parsed /\ e.ok
                 /\ IsSuccessText(e)
                 /\ pc' = "running" => stdout' = <<e.result>>
            /\ (n > 0 /\ pc' = "running" /\ e.line = input' /\ e.before = store
                   /\ (~e.parsed \/ e.result = ""))
               => store' = store
      ]_vars

\* A line that did not parse, then a command that changed the table.
C9_Witness ==
    \E p \in Consecutive :
       /\ ~p[1].parsed /\ p[1].before = p[1].after
       /\ p[2].parsed /\ p[2].before # p[2].after
       /\ store = p[2].after

\* C10: process_query returns Ok for every command, and the string it returns
\* is empty when the command did not take its success path: an Insert without
\* a value, a Select, Update or Delete of a key that is absent, an Update
\* without a value.
C10_AlwaysOkEmptyOnWarning ==
    \A e \in Entries :
       e.parsed =>
          /\ e.ok
          /\ e.out # <<>> => e.out = <<e.result>>
          /\ \/ Ran(e, "Insert") /\ ~HasValue(e)
             \/ e.query.q_type \in {"Select", "Update", "Delete"} /\ ~Present(e)
             \/ Ran(e, "Update") /\ ~HasValue(e)
             => e.result = ""

\* A Delete of a key that is absent, then an Update without a value of a key
\* that is present: both returned Ok("").
C10_Witness ==
    \E p \in Consecutive :
       /\ Ran(p[1], "Delete") /\ ~Present(p[1]) /\ p[1].ok /\ p[1].result = ""
       /\ Ran(p[2], "Update") /\ Present(p[2]) /\ ~HasValue(p[2])
       /\ p[2].ok /\ p[2].result = ""
       /\ stdout = <<"">>

----------------------------------------------------------------------------
(* Properties of build_query, over cur_tokens and the result in cur_query *)

\* build_query has returned: an Ok, or an Err with its message.
Built == cur_query.ok \/ cur_query.error # ""

\* The same letter, in either case.
SameLetter(a, b) ==
    \/ a = b
    \/ \E i \in 1..Len(LowerAlpha) : {a, b} = {LowerAlpha[i], UpperAlpha[i]}

\* Token t is the verb w in some letter case.
MatchesVerb(t, w) ==
    /\ Len(t) = Len(w)
    /\ \A i \in 1..Len(t) : SameLetter(t[i], w[i])

Verbs ==
    { [word |-> <<"I","N","S","E","R","T">>, kind |-> "Insert"],
      [word |-> <<"S","E","L","E","C","T">>, kind |-> "Select"],
      [word |-> <<"U","P","D","A","T","E">>, kind |-> "Update"],
      [word |-> <<"D","E","L","E","T","E">>, kind |-> "Delete"] }

\* C11: for a token sequence of length < 2, whatever its token, build_query
\* fails with "Not enough arguments" and builds no Query.
C11_TooFewTokens ==
    Built /\ Len(cur_tokens) < 2 =>
       /\ ~cur_query.ok
       /\ cur_query.error = "Not enough arguments"
       /\ cur_query.query = NoQuery

\* build_query has refused a single token that is no verb.
C11_Witness ==
    /\ Built
    /\ Len(cur_tokens) = 1
    /\ \A w \in Verbs : ~MatchesVerb(cur_tokens[1], w.word)
    /\ cur_query.error = "Not enough arguments"

\* C12 as stated: for every token sequence whose first token matches none of
\* the four verbs in any letter case, build_query fails with "Invalid query type".
C12_UnknownVerbAnyLength ==
    (/\ Built
     /\ Len(cur_tokens) >= 1
     /\ (\A w \in Verbs : ~MatchesVerb(cur_tokens[1], w.word)))
    => ~cur_query.ok /\ cur_query.error = "Invalid query type"

\* C12, amended: for every token sequence of length >= 2 whose first token,
\* upper-cased, is none of INSERT, SELECT, UPDATE, DELETE, build_query fails
\* with "Invalid query type"; with a single such token it fails with "Not
\* enough arguments".
C12_UnknownVerb ==
    (/\ Built
     /\ Len(cur_tokens) >= 1
     /\ to_uppercase(cur_tokens[1]) \notin {"INSERT", "SELECT", "UPDATE", "DELETE"})
    => /\ ~cur_query.ok
       /\ cur_query.query = NoQuery
       /\ cur_query.error = IF Len(cur_tokens) >= 2 THEN "Invalid query type"
                            ELSE "Not enough arguments"

\* build_query has refused three tokens whose first only starts like a verb.
C12_Witness ==
    /\ Built
    /\ Len(cur_tokens) = 3
    /\ cur_tokens[1] = <<"i","n","s","e","r","t","s">>
    /\ ~cur_query.ok
    /\ cur_query.error = "Invalid query type"

\* C13: for a token sequence of length >= 2 whose first token is a verb in any
\* letter case, build_query succeeds with the kind of that verb, the second
\* token as key and the third token, if there is one, as value; further tokens
\* change nothing.
C13_BuildsQuery ==
    \A w \in Verbs :
       Built /\ Len(cur_tokens) >= 2 /\ MatchesVerb(cur_tokens[1], w.word) =>
          /\ cur_query.ok
          /\ cur_query.query.q_type = w.kind
          /\ cur_query.query.key = to_string(cur_tokens[2])
          /\ cur_query.query.value =
                IF Len(cur_tokens) >= 3 THEN <<to_string(cur_tokens[3])>> ELSE <<>>

\* ["insert", "k", "v", "drop"] has given Insert, key "k", value "v".
C13_Witness ==
    /\ Built
    /\ cur_tokens = << <<"i","n","s","e","r","t">>, <<"k">>, <<"v">>, <<"d","r","o","p">> >>
    /\ cur_query.ok
    /\ cur_query.query = [q_type |-> "Insert", key |-> "k", value |-> <<"v">>]

----------------------------------------------------------------------------
(* Properties of the session loop *)

\* Line l is the word w with nothing but white space before and after it.
TrimsTo(l, w) ==
    \E i \in 1..(Len(l) + 1) :
       /\ i + Len(w) - 1 <= Len(l)
       /\ SubSeq(l, i, i + Len(w) - 1) = w
       /\ \A j \in 1..Len(l) : (j < i \/ j > i + Len(w) - 1) => l[j] \in White_Space

IsQuitLine(l) == TrimsTo(l, <<"q","u","i","t">>) \/ TrimsTo(l, <<"e","x","i","t">>)

\* The last entry of the log after the step is the entry of the line in the buffer.
LoggedLine(h, l) == Len(h) > 0 /\ h[Len(h)].line = l

\* C14: an iteration whose line trims to exactly quit or exit ends the session
\* with exit code 0, hands nothing to the parser and leaves the table as it
\* was; any other line, QUIT and "quit now" among them, goes to the parser and
\* the session keeps running.
C14_QuitExit ==
    [][ (pc = "running" /\ pc' \notin {"failed", "panicked"}) =>
           /\ IsQuitLine(input') =>
                 /\ pc' = "exited"
                 /\ ExitCode' = 0
                 /\ store' = store
                 /\ UNCHANGED <<hist, cur_tokens, cur_query>>
           /\ ~IsQuitLine(input') =>
                 /\ pc' = "running"
                 /\ LoggedLine(hist', input')
                 /\ cur_query'.ok \/ cur_query'.error # ""
      ]_vars

\* QUIT went to the parser, and then a padded exit ended the session with a
\* table that is not empty.
C14_Witness ==
    /\ pc = "exited"
    /\ input = <<" ", " ", "e", "x", "i", "t", " ", "\n">>
    /\ LoggedLine(hist, <<"Q", "U", "I", "T", "\n">>)
    /\ cur_query.error = "Not enough arguments"
    /\ DOMAIN store # {}

\* C15: the loop is left only by a quit/exit line or by an I/O failure of the
\* driver: flush or read_line returning Err before the line is looked at, or a
\* write that fails once the line has reached the parser;
\* after any other line, whether it failed to parse or its command only gave a
\* warning, the loop is still running.
C15_OnlyQuitOrIoEnds ==
    [][ /\ pc = "running" =>
           \/ pc' = "running" /\ ~IsQuitLine(input')
           \/ pc' = "exited" /\ IsQuitLine(input')
           \/ /\ pc' \in {"failed", "panicked"}
              /\ stdout' = <<>>
              /\ UNCHANGED <<store, hist, cur_tokens, cur_query>>
           \/ /\ pc' = "panicked"
              /\ ~IsQuitLine(input')
              /\ cur_query'.ok \/ cur_query'.error # ""
        /\ pc' = "failed" => stderr' # <<>> /\ ExitCode' = 1
        /\ pc # "running" => UNCHANGED vars
      ]_vars

\* A line that did not parse and then a command that only gave a warning, and
\* the loop is running.
C15_Witness ==
    /\ pc = "running"
    /\ Len(hist) >= 2
    /\ ~hist[Len(hist) - 1].parsed
    /\ hist[Len(hist)].parsed /\ hist[Len(hist)].result = ""
    /\ hist[Len(hist)].err # <<>>

\* C16: when standard input has come to its end without a quit or exit line
\* and stays there, the session eventually ends as a failure, with a non-zero
\* exit code.
C16_EofEndsSession == (<>[]eof) => <>(pc \in {"failed", "panicked"} /\ ExitCode # 0)

----------------------------------------------------------------------------
(* Properties of a session logged from its first line *)

LineOf(verb, words) ==
    LET RECURSIVE join(_)
        join(ws) == IF ws = <<>> THEN <<"\n">> ELSE <<" ">> \o Head(ws) \o join(Tail(ws))
    IN  verb \o join(words)

\* The four lines of the scenario.
Scenario ==
    << LineOf(<<"I","N","S","E","R","T">>, << <<"f","o","o">>, <<"b","a","r">> >>),
       LineOf(<<"S","E","L","E","C","T">>, << <<"f","o","o">> >>),
       LineOf(<<"D","E","L","E","T","E">>, << <<"f","o","o">> >>),
       LineOf(<<"S","E","L","E","C","T">>, << <<"f","o","o">> >>) >>

RanScenario ==
    /\ Len(hist) >= Len(Scenario)
    /\ \A i \in 1..Len(Scenario) : hist[i].line = Scenario[i]

\* C17: on an empty table the lines INSERT foo bar, SELECT foo, DELETE foo,
\* SELECT foo print "SUCCESS: Inserted foo:bar into database", "bar",
\* "SUCCESS: Deleted foo" and an empty line with the not-found diagnostic; and
\* every line that parses prints exactly its result string, as one line.
C17_Scenario ==
    /\ RanScenario =>
          /\ hist[1].out = <<"SUCCESS: Inserted foo:bar into database">>
          /\ hist[2].out = <<"bar">>
          /\ hist[3].out = <<"SUCCESS: Deleted foo">>
          /\ hist[4].out = <<"">>
          /\ hist[4].err = <<"No entry found for key = foo">>
    /\ \A e \in Entries : e.parsed => e.out = <<e.result>>
    /\ \A e \in Entries : ~e.parsed => e.out = <<>>
    /\ LoggedLine(hist, input) =>
          stdout = hist[Len(hist)].out /\ stderr = hist[Len(hist)].err

\* The four lines have run, and the last one printed the empty line.
C17_Witness ==
    /\ RanScenario
    /\ Len(hist) = 4
    /\ stdout = <<"">>
    /\ stderr = <<"No entry found for key = foo">>
    /\ DOMAIN store = {}

\* Entry e is a parsed Insert of k with a value / Update of k with a value /
\* Delete of k.
IsIns(e, k) == Ran(e, "Insert") /\ e.query.key = k /\ HasValue(e)
IsUpd(e, k) == Ran(e, "Update") /\ e.query.key = k /\ HasValue(e)
IsDel(e, k) == Ran(e, "Delete") /\ e.query.key = k

\* Index of the last Insert of k with a value among the first n lines, or 0.
LastInsert(k, n) ==
    IF \E i \in 1..n : IsIns(hist[i], k)
    THEN CHOOSE i \in 1..n : IsIns(hist[i], k) /\ \A j \in (i + 1)..n : ~IsIns(hist[j], k)
    ELSE 0

\* The reference: k is present after n lines.
RefPresent(k, n) ==
    /\ LastInsert(k, n) > 0
    /\ \A j \in (LastInsert(k, n) + 1)..n : ~IsDel(hist[j], k)

\* The reference: the value of k after n lines, when it is present: that of
\* the last Insert of k, or of the last Update of k after it.
RefValue(k, n) ==
    LET i == LastInsert(k, n)
        m == CHOOSE x \in i..n :
                /\ x = i \/ IsUpd(hist[x], k)
                /\ \A y \in (x + 1)..n : ~IsUpd(hist[y], k)
    IN  hist[m].query.value[1]

LoggedKeys == {hist[i].query.key : i \in {j \in 1..Len(hist) : hist[j].parsed}}

\* C20: after the lines of the log, starting from the empty table, k is in
\* the table exactly if a line was an Insert of k with a value and no Delete
\* of k came after the last such line, and its value is then that of the last
\* Insert of k with a value or of a later Update of k with a value; Update and
\* Select add no key and only Delete removes one.
C20_ReferenceModel ==
    /\ DOMAIN store \subseteq LoggedKeys
    /\ \A k \in LoggedKeys :
          /\ k \in DOMAIN store <=> RefPresent(k, Len(hist))
          /\ k \in DOMAIN store => store[k] = RefValue(k, Len(hist))
    /\ \A e \in Entries :
          /\ (~e.parsed \/ e.query.q_type \in {"Update", "Select"}) =>
                DOMAIN e.after \subseteq DOMAIN e.before
          /\ (~e.parsed \/ e.query.q_type # "Delete") =>
                DOMAIN e.before \subseteq DOMAIN e.after

\* foo was inserted, deleted, inserted again and then updated.
C20_Witness ==
    /\ Len(hist) = 4
    /\ IsIns(hist[1], "foo") /\ IsDel(hist[2], "foo")
    /\ IsIns(hist[3], "foo") /\ IsUpd(hist[4], "foo")
    /\ hist[4].query.value[1] # hist[3].query.value[1]
    /\ store = [k \in {"foo"} |-> hist[4].query.value[1]]

----------------------------------------------------------------------------
(* Properties of the keys and values of the table *)

AsciiWhiteSpace == {" ", "\t", "\n", "\f", "\r"}

\* Word w is not empty and holds no ASCII white space.
Clean(w) == Len(w) > 0 /\ \A i \in 1..Len(w) : w[i] \notin AsciiWhiteSpace

\* The strings of the clean words that occur in the lines.
CleanStrings ==
    UNION { { to_string(SubSeq(l, r[1], r[2])) :
                 r \in { x \in (1..Len(l)) \X (1..Len(l)) :
                            x[1] <= x[2] /\ Clean(SubSeq(l, x[1], x[2])) } } :
            l \in Lines }

\* C18: every token handed to build_query is non-empty and free of ASCII
\* white space, so every Query built has such a key (and value), and so has
\* every entry of the table.
C18_KeysNonEmpty ==
    /\ \A i \in 1..Len(cur_tokens) : Clean(cur_tokens[i])
    /\ cur_query.ok =>
          /\ Len(cur_tokens) >= 2
          /\ cur_query.query.key = to_string(cur_tokens[2])
          /\ cur_query.query.key # ""
          /\ cur_query.query.key \in CleanStrings
          /\ \A i \in 1..Len(cur_query.query.value) :
                cur_query.query.value[i] \in CleanStrings
    /\ \A k \in DOMAIN store :
          k # "" /\ k \in CleanStrings /\ store[k] # "" /\ store[k] \in CleanStrings

\* The table holds two keys, the second from a line with doubled spaces, an
\* extra token and a carriage return.
C18_Witness ==
    /\ DOMAIN store = {"a", "b"}
    /\ input = <<" ">> \o <<"I","N","S","E","R","T">> \o <<" ", " ", "b", " ", "1", " ", "x", "\r", "\n">>
    /\ cur_tokens = << <<"I","N","S","E","R","T">>, <<"b">>, <<"1">>, <<"x">> >>
    /\ cur_query.ok
    /\ store["b"] = "1"

\* C19: a command leaves the presence and the value of every key but its own
\* as they were; a line that does not parse leaves the whole table.
C19_Frame ==
    \A e \in Entries :
       /\ e.parsed => SameElsewhere(e.before, e.after, e.query.key)
       /\ ~e.parsed => e.after = e.before

\* A Delete that removed its key from a table of two keys, then an Insert
\* that changed the value of the key left.
C19_Witness ==
    \E p \in Consecutive :
       /\ Ran(p[1], "Delete") /\ Cardinality(DOMAIN p[1].before) = 2
       /\ Cardinality(DOMAIN p[1].after) = 1
       /\ Ran(p[2], "Insert") /\ Present(p[2]) /\ p[2].after # p[2].before
       /\ store = p[2].after

====
